---- MODULE Spec2Model ----
(***************************************************************************)
(* Transactional concurrent radix tree (RadixTree.hh).                     *)
(*                                                                         *)
(* Shared memory is the tree: the child slots and version words of the     *)
(* interior nodes, and the version word and payload of every leaf          *)
(* (versioned_value).  Every thread runs the public operations one shared  *)
(* memory access at a time.  The transaction manager (Sto, TransItem,      *)
(* TransactionTid in Transaction.hh) is modelled from its documented       *)
(* contract.                                                               *)
(***************************************************************************)
EXTENDS Integers, Sequences, FiniteSets, TLC

\* ------------------------------------------------------------------ bounds
span == 1
t_key_sz == 2
MaxKey == 1
MaxVal == 2
value_words == 2
MaxRawOps == 2
MaxTxOps == 2
MaxPairOps == 2
MaxPeerOps == 1
MaxOwnOps == 3
MaxOwnRawOps == 1
MaxSeqOps == 4
MaxLockOps == 2

fanout == 2 ^ span

Threads == {"t1", "t2"}
Keys == 0 .. MaxKey
Vals == 1 .. MaxVal
ThreadVal(t) == IF t = "t1" THEN 1 ELSE MaxVal

\* ------------------------------------------------- TransactionTid (contract)
lock_bit == 1
valid_bit == 2
user_bit1 == 4
increment_value == 8

ver_insert_bit == user_bit1

HasBit(w, b) == (w \div b) % 2 = 1
OrBit(w, b) == IF HasBit(w, b) THEN w ELSE w + b
ClearBit(w, b) == IF HasBit(w, b) THEN w - b ELSE w

is_locked(w) == HasBit(w, lock_bit)
TidLock(w) == OrBit(w, lock_bit)
TidUnlock(w) == ClearBit(w, lock_bit)
set_version(w, new_v) == new_v
same_version(a, b) == ClearBit(a, lock_bit) = ClearBit(b, lock_bit)

\* ------------------------------------------------------- key transformer
\* buf[L-1-i] = (key >> (span*i)) & (fanout-1): most significant nibble first
transform(k) == [j \in 1 .. t_key_sz |-> (k \div (fanout ^ (t_key_sz - j))) % fanout]

Prefix(s, n) == SubSeq(s, 1, n)
Paths == {Prefix(transform(k), n) : k \in Keys, n \in 0 .. t_key_sz}
NodePaths == {p \in Paths : Len(p) < t_key_sz}
LeafPaths == {p \in Paths : Len(p) = t_key_sz}
SlotPaths == Paths \ {<< >>}
KeyOf(p) == CHOOSE k \in Keys : transform(k) = p

\* -------------------------------------------------------------- payloads
\* A payload V is value_words machine words, copied one word at a time.
Payload(v) == [j \in 1 .. value_words |-> v]
InitialPayload == Payload(0)
NoBuf == << >>

NULL == "null"

VARIABLES
  children,     \* children[p]: the slot that leads to path p: NULL or the allocating thread
  nodeVersion,  \* version word of the interior node at path p
  leafVersion,  \* version word of the leaf at path p
  leafValue,    \* payload of the leaf at path p
  written,      \* history, per leaf: <<version, payload>> of every update of the leaf
  th,           \* per thread: program counter and locals of the running operation
  tx,           \* per thread: the transaction manager's state (items, status)
  left,         \* per thread: operations it may still start
  role,         \* per thread: "raw" (get/put/remove) or "txn" (one transaction)
  vals,         \* per thread: the values its calls may pass
  last          \* per key: value of the last completed raw put, 0 after remove / never put

vars == <<children, nodeVersion, leafVersion, leafValue, written, th, tx, left, role, vals, last>>
mem == <<children, nodeVersion, leafVersion, leafValue, written>>

NoRet == [op |-> "none", key |-> 0, found |-> FALSE, value |-> NoBuf, leaf |-> FALSE]

Idle ==
  [pc |-> "idle", op |-> "none", key |-> 0, value |-> 0, i |-> 0, cur |-> << >>,
   new_node |-> NULL, ver2 |-> 0, buf |-> NoBuf, w |-> 0, ret |-> NoRet]

\* A TransItem: the recorded read version, the staged write and the user flags.
\* wbool tells that the staged write is the bool of trans_remove's add_write(true).
\* staged is history: the writes staged on the item, a put's value or 0 for a remove.
NoItem ==
  [has_read |-> FALSE, rdata |-> 0, has_write |-> FALSE, wdata |-> 0, wbool |-> FALSE,
   flags |-> {}, staged |-> << >>]

item_put_bit == "put"
item_remove_bit == "remove"
item_empty_bit == "empty"

\* obs, absent_get, absent_rm and phantom are history: what the transaction has
\* observed, and which committed puts came between an observation and its commit.
NoTx ==
  [status |-> "none", items |-> << >>, locked |-> {}, checked |-> {}, installed |-> {},
   obs |-> {}, absent_rm |-> {}, phantom |-> {}]

InitMem ==
  /\ children = [p \in SlotPaths |-> NULL]
  /\ nodeVersion = [p \in NodePaths |-> increment_value]
  /\ leafVersion = [p \in LeafPaths |-> 0]
  /\ leafValue = [p \in LeafPaths |-> InitialPayload]
  /\ written = [p \in LeafPaths |-> {}]
  /\ th = [t \in Threads |-> Idle]
  /\ tx = [t \in Threads |-> NoTx]
  /\ last = [k \in Keys |-> 0]

\* history: the update that gives leaf p the version ver writes (or leaves) payload
Record(p, ver, payload) ==
  [written EXCEPT ![p] = @ \cup {<<ClearBit(ver, lock_bit), payload>>}]

\* ------------------------------------------------------------ operations
Call(t, op, k, v, pc) ==
  th' = [th EXCEPT ![t] = [Idle EXCEPT !.pc = pc, !.op = op, !.key = k, !.value = v]]

Return(t, found, value, leaf, pc) ==
  th' = [th EXCEPT ![t] = [Idle EXCEPT !.pc = pc,
            !.ret = [op |-> th[t].op, key |-> th[t].key, found |-> found,
                     value |-> value, leaf |-> leaf]]]

Slot(t) == Prefix(transform(th[t].key), th[t].i + 1)

Start(t) ==
  /\ th[t].pc = "idle"
  /\ left[t] > 0
  /\ left' = [left EXCEPT ![t] = @ - 1]

\* ---------------------------------------------------- get_value (descent)
\* One iteration of the loop of get_value: node->children[t_key[i]] is read once.
get_value(t) ==
  /\ th[t].pc = "gv"
  /\ th' = [th EXCEPT ![t] =
        IF children[Slot(t)] = NULL
          THEN [@ EXCEPT !.pc = "gv_node"]
          ELSE [@ EXCEPT !.cur = Slot(t), !.i = @ + 1,
                         !.pc = IF th[t].i + 1 = t_key_sz THEN "gv_leaf" ELSE "gv"]]
  /\ UNCHANGED <<mem, tx, left, role, vals, last>>

\* ------------------------------------------------------------ atomic_read
atomic_read_ver2(t) ==
  /\ th[t].pc = "ar_ver2"
  /\ th' = [th EXCEPT ![t].ver2 = leafVersion[th[t].cur], ![t].buf = NoBuf,
                       ![t].pc = "ar_value"]
  /\ UNCHANGED <<mem, tx, left, role, vals, last>>

atomic_read_value(t) ==
  /\ th[t].pc = "ar_value"
  /\ LET b == Append(th[t].buf, leafValue[th[t].cur][Len(th[t].buf) + 1]) IN
       th' = [th EXCEPT ![t].buf = b,
                        ![t].pc = IF Len(b) = value_words THEN "ar_ver" ELSE "ar_value"]
  /\ UNCHANGED <<mem, tx, left, role, vals, last>>

\* ------------------------------------------------------------ insert_nodes
\* line 175: the slot is read; an empty one makes the thread build the child.
insert_nodes_check(t) ==
  /\ th[t].pc = "in_check"
  /\ th' = [th EXCEPT ![t] =
        IF children[Slot(t)] = NULL
          THEN [@ EXCEPT !.new_node = IF th[t].i = t_key_sz - 1 THEN "vv" ELSE "node",
                         !.pc = "in_lock"]
          ELSE [@ EXCEPT !.cur = Slot(t), !.i = @ + 1,
                         !.pc = IF th[t].i + 1 = t_key_sz THEN "in_done" ELSE "in_check"]]
  /\ UNCHANGED <<mem, tx, left, role, vals, last>>

\* the child built for a slot that was filled meanwhile is kept
not_deleted(new_node) == new_node

\* lines 201-206: the child built for a slot that was filled meanwhile is deleted
deleted(new_node) == NULL

\* the slot taken to be still empty
slot_not_read_again(t) == TRUE

\* line 195: the slot is read again under the node's lock
slot_still_empty(t) == children[Slot(t)] = NULL

\* lines 190-195: lock the node, then look at the slot again; lines 201-206: a
\* child built for a slot that was filled meanwhile is deleted
insert_nodes_lock(t) ==
  /\ th[t].pc = "in_lock"
  /\ ~is_locked(nodeVersion[th[t].cur])
  /\ nodeVersion' = [nodeVersion EXCEPT ![th[t].cur] = TidLock(@)]
  /\ th' = [th EXCEPT ![t] =
        IF slot_still_empty(t)
          THEN [@ EXCEPT !.pc = "in_bump"]
          ELSE [@ EXCEPT !.new_node = deleted(@), !.pc = "in_unlock"]]
  /\ UNCHANGED <<children, leafVersion, leafValue, written, tx, left, role, vals, last>>

\* line 197
insert_nodes_bump(t) ==
  /\ th[t].pc = "in_bump"
  /\ nodeVersion' = [nodeVersion EXCEPT
        ![th[t].cur] = set_version(@, @ + increment_value)]
  /\ th' = [th EXCEPT ![t].pc = "in_publish"]
  /\ UNCHANGED <<children, leafVersion, leafValue, written, tx, left, role, vals, last>>

\* a leaf built already visible
new_vv_version_valid == valid_bit

\* line 180: the version of a leaf built by insert_nodes
new_vv_version == ver_insert_bit

\* line 199: the built child is published with the fields it was built with
insert_nodes_publish(t) ==
  /\ th[t].pc = "in_publish"
  /\ children' = [children EXCEPT ![Slot(t)] = t]
  /\ leafVersion' = IF th[t].new_node = "vv"
                      THEN [leafVersion EXCEPT ![Slot(t)] = new_vv_version]
                      ELSE leafVersion
  /\ written' = IF th[t].new_node = "vv"
                  THEN Record(Slot(t), new_vv_version, InitialPayload)
                  ELSE written
  /\ th' = [th EXCEPT ![t].new_node = NULL, ![t].pc = "in_unlock"]
  /\ UNCHANGED <<nodeVersion, leafValue, tx, left, role, vals, last>>

\* the node left locked
node_kept_locked(ver) == ver

\* line 208: the node's lock is released
node_released(ver) == TidUnlock(ver)

\* lines 208-210
insert_nodes_unlock(t) ==
  /\ th[t].pc = "in_unlock"
  /\ nodeVersion' = [nodeVersion EXCEPT ![th[t].cur] = node_released(@)]
  /\ th' = [th EXCEPT ![t].cur = Slot(t), ![t].i = @ + 1,
                       ![t].pc = IF th[t].i + 1 = t_key_sz THEN "in_done" ELSE "in_check"]
  /\ UNCHANGED <<children, leafVersion, leafValue, written, tx, left, role, vals, last>>

\* -------------------------------------------------------------------- get
get_call(t) ==
  /\ role[t] = "raw"
  /\ Start(t)
  /\ \E k \in Keys : Call(t, "get", k, 0, "gv")
  /\ UNCHANGED <<mem, tx, role, vals, last>>

get_absent(t) ==
  /\ th[t].pc = "gv_node" /\ th[t].op = "get"
  /\ Return(t, FALSE, NoBuf, FALSE, "idle")
  /\ UNCHANGED <<mem, tx, left, role, vals, last>>

\* line 100
get_valid(t) ==
  /\ th[t].pc = "gv_leaf" /\ th[t].op = "get"
  /\ IF HasBit(leafVersion[th[t].cur], valid_bit)
       THEN th' = [th EXCEPT ![t].pc = "ar_ver2"]
       ELSE Return(t, FALSE, NoBuf, FALSE, "idle")
  /\ UNCHANGED <<mem, tx, left, role, vals, last>>

\* lines 135-137 of atomic_read, then line 105
get_return(t) ==
  /\ th[t].pc = "ar_ver" /\ th[t].op = "get"
  /\ IF leafVersion[th[t].cur] = th[t].ver2
       THEN Return(t, TRUE, th[t].buf, TRUE, "idle")
       ELSE th' = [th EXCEPT ![t].pc = "ar_ver2"]
  /\ UNCHANGED <<mem, tx, left, role, vals, last>>

\* -------------------------------------------------------------------- put
put_call(t) ==
  /\ role[t] = "raw"
  /\ Start(t)
  /\ \E k \in Keys, v \in vals[t] : Call(t, "put", k, v, "in_check")
  /\ UNCHANGED <<mem, tx, role, vals, last>>

\* line 154
put_lock(t) ==
  /\ th[t].pc = "in_done" /\ th[t].op = "put"
  /\ ~is_locked(leafVersion[th[t].cur])
  /\ leafVersion' = [leafVersion EXCEPT ![th[t].cur] = TidLock(@)]
  /\ th' = [th EXCEPT ![t].pc = "put_ver"]
  /\ UNCHANGED <<children, nodeVersion, leafValue, written, tx, left, role, vals, last>>

\* put that leaves the insert bit as it is
put_new_version_keeps_insert(ver) == OrBit(ver + increment_value, valid_bit)

\* lines 156-158
put_new_version(ver) == ClearBit(OrBit(ver + increment_value, valid_bit), ver_insert_bit)

\* line 159
put_version(t) ==
  /\ th[t].pc = "put_ver"
  /\ leafVersion' = [leafVersion EXCEPT ![th[t].cur] = put_new_version(@)]
  /\ written' = Record(th[t].cur, put_new_version(leafVersion[th[t].cur]), Payload(th[t].value))
  /\ th' = [th EXCEPT ![t].pc = "put_val"]
  /\ UNCHANGED <<children, nodeVersion, leafValue, tx, left, role, vals, last>>

\* line 160, one word of the payload per step
put_value(t) ==
  /\ th[t].pc = "put_val"
  /\ leafValue' = [leafValue EXCEPT ![th[t].cur][th[t].w + 1] = th[t].value]
  /\ th' = [th EXCEPT ![t].w = @ + 1,
                       ![t].pc = IF th[t].w + 1 = value_words THEN "put_unlock" ELSE "put_val"]
  /\ UNCHANGED <<children, nodeVersion, leafVersion, written, tx, left, role, vals, last>>

\* line 162
put_unlock(t) ==
  /\ th[t].pc = "put_unlock"
  /\ leafVersion' = [leafVersion EXCEPT ![th[t].cur] = TidUnlock(@)]
  /\ last' = [last EXCEPT ![th[t].key] = th[t].value]
  /\ Return(t, TRUE, NoBuf, FALSE, "idle")
  /\ UNCHANGED <<children, nodeVersion, leafValue, written, tx, left, role, vals>>

\* ----------------------------------------------------------------- remove
remove_call(t) ==
  /\ role[t] = "raw"
  /\ Start(t)
  /\ \E k \in Keys : Call(t, "remove", k, 0, "gv")
  /\ UNCHANGED <<mem, tx, role, vals, last>>

remove_absent(t) ==
  /\ th[t].pc = "gv_node" /\ th[t].op = "remove"
  /\ last' = [last EXCEPT ![th[t].key] = 0]
  /\ Return(t, FALSE, NoBuf, FALSE, "idle")
  /\ UNCHANGED <<mem, tx, left, role, vals>>

\* line 244
remove_lock(t) ==
  /\ th[t].pc = "gv_leaf" /\ th[t].op = "remove"
  /\ ~is_locked(leafVersion[th[t].cur])
  /\ leafVersion' = [leafVersion EXCEPT ![th[t].cur] = TidLock(@)]
  /\ th' = [th EXCEPT ![t].pc = "remove_ver"]
  /\ UNCHANGED <<children, nodeVersion, leafValue, written, tx, left, role, vals, last>>

\* remove that clears the insert bit only
remove_new_version_keeps_valid(ver) == ClearBit(ver + increment_value, ver_insert_bit)

\* lines 246-247
remove_new_version(ver) ==
  ClearBit(ClearBit(ver + increment_value, valid_bit), ver_insert_bit)

\* line 248
remove_version(t) ==
  /\ th[t].pc = "remove_ver"
  /\ leafVersion' = [leafVersion EXCEPT ![th[t].cur] = remove_new_version(@)]
  /\ written' = Record(th[t].cur, remove_new_version(leafVersion[th[t].cur]),
                       leafValue[th[t].cur])
  /\ th' = [th EXCEPT ![t].pc = "remove_unlock"]
  /\ UNCHANGED <<children, nodeVersion, leafValue, tx, left, role, vals, last>>

\* line 250
remove_unlock(t) ==
  /\ th[t].pc = "remove_unlock"
  /\ leafVersion' = [leafVersion EXCEPT ![th[t].cur] = TidUnlock(@)]
  /\ last' = [last EXCEPT ![th[t].key] = 0]
  /\ Return(t, TRUE, NoBuf, FALSE, "idle")
  /\ UNCHANGED <<children, nodeVersion, leafValue, written, tx, left, role, vals>>

\* ------------------------------------------------- TransItem / Sto (contract)
\* Sto::item(this, key): the transaction's handle for an object, made on first use
StoItem(t, p) == IF p \in DOMAIN tx[t].items THEN tx[t].items[p] ELSE NoItem

\* add_read keeps the version recorded first
add_read(it, v) == IF it.has_read THEN it ELSE [it EXCEPT !.has_read = TRUE, !.rdata = v]
add_write(it, v, isbool) ==
  [it EXCEPT !.has_write = TRUE, !.wdata = v, !.wbool = isbool,
             !.staged = Append(@, IF isbool THEN 0 ELSE v)]
add_flags(it, f) == [it EXCEPT !.flags = @ \cup {f}]

PutItem(t, p, it) ==
  [q \in DOMAIN tx[t].items \cup {p} |-> IF q = p THEN it ELSE tx[t].items[q]]

WriteItems(t) == {p \in DOMAIN tx[t].items : tx[t].items[p].has_write}
ReadItems(t) == {p \in DOMAIN tx[t].items : tx[t].items[p].has_read}

\* the manager's order of items: by address; here shorter paths first, then by nibbles
RECURSIVE PathNum(_)
PathNum(p) == IF p = << >> THEN 0 ELSE PathNum(Prefix(p, Len(p) - 1)) * fanout + p[Len(p)]
Before(p, q) == Len(p) < Len(q) \/ (Len(p) = Len(q) /\ PathNum(p) < PathNum(q))
First(S) == CHOOSE p \in S : \A q \in S \ {p} : Before(p, q)

tx_begin(t) ==
  /\ role[t] = "txn"
  /\ th[t].pc = "idle" /\ tx[t].status = "none"
  /\ tx' = [tx EXCEPT ![t].status = "active"]
  /\ th' = [th EXCEPT ![t].pc = "tx"]
  /\ UNCHANGED <<mem, left, role, vals, last>>

StartTx(t) ==
  /\ th[t].pc = "tx"
  /\ left[t] > 0
  /\ left' = [left EXCEPT ![t] = @ - 1]

\* ---------------------------------------------------------------- trans_get
trans_get_call(t) ==
  /\ StartTx(t)
  /\ \E k \in Keys : Call(t, "trans_get", k, 0, "gv")
  /\ UNCHANGED <<mem, tx, role, vals, last>>

\* lines 61-68: the node's version is read after the descent has returned
trans_get_empty(t) ==
  /\ th[t].pc = "gv_node" /\ th[t].op = "trans_get"
  /\ LET node == th[t].cur
         it == add_flags(add_read(StoItem(t, node), nodeVersion[node]), item_empty_bit)
     IN tx' = [tx EXCEPT ![t].items = PutItem(t, node, it),
                         ![t].obs = @ \cup {<<th[t].key, FALSE, NoBuf>>}]
  /\ Return(t, FALSE, NoBuf, FALSE, "tx")
  /\ UNCHANGED <<mem, left, role, vals, last>>

\* the staged write found, the payload not copied out
trans_get_staged_not_copied(v) == [found |-> TRUE, value |-> InitialPayload]

\* lines 76-77: the staged write is the result
trans_get_staged(v) == [found |-> TRUE, value |-> Payload(v)]

\* lines 73-78: write_value<V>() of an item whose staged write is the bool of
\* trans_remove reads storage that holds no V: any payload may come out
trans_get_own_write(t) ==
  /\ th[t].pc = "gv_leaf" /\ th[t].op = "trans_get"
  /\ StoItem(t, th[t].cur).has_write
  /\ LET it == StoItem(t, th[t].cur) IN
       \E v \in 0 .. MaxVal :
         /\ it.wbool \/ v = it.wdata
         /\ Return(t, trans_get_staged(v).found, trans_get_staged(v).value, FALSE, "tx")
  /\ UNCHANGED <<mem, tx, left, role, vals, last>>

\* lines 80-85
trans_get_version(t) ==
  /\ th[t].pc = "gv_leaf" /\ th[t].op = "trans_get"
  /\ ~StoItem(t, th[t].cur).has_write
  /\ LET it == StoItem(t, th[t].cur)
         ver == leafVersion[th[t].cur]
     IN IF it.has_read /\ ~same_version(it.rdata, ver)
          THEN /\ tx' = [tx EXCEPT ![t].status = "aborted"]
               /\ Return(t, FALSE, NoBuf, FALSE, "idle")
          ELSE /\ th' = [th EXCEPT ![t].pc = "ar_ver2"]
               /\ tx' = tx
  /\ UNCHANGED <<mem, left, role, vals, last>>

\* lines 135-137 of atomic_read, then lines 88-89
trans_get_return(t) ==
  /\ th[t].pc = "ar_ver" /\ th[t].op = "trans_get"
  /\ LET vv == th[t].cur
         ver == leafVersion[vv]
         found == HasBit(ver, valid_bit)
     IN IF ver = th[t].ver2
          THEN /\ tx' = [tx EXCEPT
                     ![t].items = PutItem(t, vv, add_read(StoItem(t, vv), ver)),
                     ![t].obs = @ \cup {<<th[t].key, found, IF found THEN th[t].buf ELSE NoBuf>>}]
               /\ Return(t, found, th[t].buf, TRUE, "tx")
          ELSE /\ th' = [th EXCEPT ![t].pc = "ar_ver2"]
               /\ tx' = tx
  /\ UNCHANGED <<mem, left, role, vals, last>>

\* ---------------------------------------------------------------- trans_put
trans_put_call(t) ==
  /\ StartTx(t)
  /\ \E k \in Keys, v \in vals[t] : Call(t, "trans_put", k, v, "in_check")
  /\ UNCHANGED <<mem, tx, role, vals, last>>

\* lines 146-148
trans_put_stage(t) ==
  /\ th[t].pc = "in_done" /\ th[t].op = "trans_put"
  /\ LET vv == th[t].cur
         it == add_flags(add_write(StoItem(t, vv), th[t].value, FALSE), item_put_bit)
     IN tx' = [tx EXCEPT ![t].items = PutItem(t, vv, it)]
  /\ Return(t, TRUE, NoBuf, FALSE, "tx")
  /\ UNCHANGED <<mem, left, role, vals, last>>

\* ------------------------------------------------------------- trans_remove
trans_remove_call(t) ==
  /\ StartTx(t)
  /\ \E k \in Keys : Call(t, "trans_remove", k, 0, "gv")
  /\ UNCHANGED <<mem, tx, role, vals, last>>

\* lines 220-228
trans_remove_empty(t) ==
  /\ th[t].pc = "gv_node" /\ th[t].op = "trans_remove"
  /\ LET node == th[t].cur
         it == add_flags(add_read(StoItem(t, node), nodeVersion[node]), item_empty_bit)
     IN tx' = [tx EXCEPT ![t].items = PutItem(t, node, it),
                         ![t].absent_rm = @ \cup {th[t].key}]
  /\ Return(t, FALSE, NoBuf, FALSE, "tx")
  /\ UNCHANGED <<mem, left, role, vals, last>>

\* lines 230-233; absent_rm notes that the key was absent at the call
trans_remove_stage(t) ==
  /\ th[t].pc = "gv_leaf" /\ th[t].op = "trans_remove"
  /\ LET vv == th[t].cur
         it == add_flags(add_write(StoItem(t, vv), 0, TRUE), item_remove_bit)
     IN tx' = [tx EXCEPT ![t].items = PutItem(t, vv, it),
                         ![t].absent_rm =
                            IF ~HasBit(leafVersion[vv], valid_bit) /\ ~StoItem(t, vv).has_write
                              THEN @ \cup {th[t].key} ELSE @]
  /\ Return(t, TRUE, NoBuf, FALSE, "tx")
  /\ UNCHANGED <<mem, left, role, vals, last>>

\* ------------------------------------------------------------------- commit
\* The manager's commit: lock every written item in order, check every read
\* item, install every written item, unlock.
AfterLock(t) == IF ReadItems(t) # {} THEN "c_check" ELSE "c_install"

commit_begin(t) ==
  /\ th[t].pc = "tx"
  /\ DOMAIN tx[t].items # {}
  /\ tx' = [tx EXCEPT ![t].status = "committing"]
  /\ th' = [th EXCEPT ![t] =
        [Idle EXCEPT !.pc = IF WriteItems(t) # {} THEN "c_lock" ELSE "c_check"]]
  /\ UNCHANGED <<mem, left, role, vals, last>>

\* RadixTree::lock, lines 311-314
lock(t) ==
  /\ th[t].pc = "c_lock"
  /\ LET vv == First(WriteItems(t) \ tx[t].locked) IN
       /\ ~is_locked(leafVersion[vv])
       /\ leafVersion' = [leafVersion EXCEPT ![vv] = TidLock(@)]
       /\ tx' = [tx EXCEPT ![t].locked = @ \cup {vv}]
       /\ th' = [th EXCEPT ![t].pc =
                    IF tx[t].locked \cup {vv} = WriteItems(t) THEN AfterLock(t) ELSE "c_lock"]
  /\ UNCHANGED <<children, nodeVersion, leafValue, written, left, role, vals, last>>

\* check with the leaf branch accepting any version
check_leaf_unchecked(it, p) ==
  IF item_empty_bit \in it.flags
    THEN same_version(nodeVersion[p], it.rdata)
    ELSE TRUE

\* RadixTree::check, lines 316-325
check(it, p) ==
  IF item_empty_bit \in it.flags
    THEN same_version(nodeVersion[p], it.rdata)
    ELSE same_version(leafVersion[p], it.rdata)

absent_get(t) == {k \in Keys : <<k, FALSE, NoBuf>> \in tx[t].obs}

\* a committed transaction: every other transaction that has not begun to commit
\* and has seen an installed put's key absent notes the phantom
Phantoms(t, o) ==
  LET puts == {KeyOf(p) : p \in {q \in WriteItems(t) : item_put_bit \in tx[t].items[q].flags}}
  IN IF tx[o].status = "active"
       THEN tx[o].phantom
            \cup (IF absent_get(o) \cap puts # {} THEN {"get"} ELSE {})
            \cup (IF tx[o].absent_rm \cap puts # {} THEN {"remove"} ELSE {})
       ELSE tx[o].phantom

Committed(t) ==
  [o \in Threads |-> IF o = t THEN [tx[t] EXCEPT !.status = "committed", !.locked = {}]
                              ELSE [tx[o] EXCEPT !.phantom = Phantoms(t, o)]]

commit_check(t) ==
  /\ th[t].pc = "c_check"
  /\ LET p == First(ReadItems(t) \ tx[t].checked) IN
       IF check(tx[t].items[p], p)
         THEN IF tx[t].checked \cup {p} # ReadItems(t)
                THEN /\ tx' = [tx EXCEPT ![t].checked = @ \cup {p}]
                     /\ th' = th
                ELSE IF WriteItems(t) # {}
                  THEN /\ tx' = [tx EXCEPT ![t].checked = @ \cup {p}]
                       /\ th' = [th EXCEPT ![t].pc = "c_install"]
                  ELSE /\ tx' = [Committed(t) EXCEPT ![t].checked = @ \cup {p}]
                       /\ th' = [th EXCEPT ![t].pc = "idle"]
         ELSE IF tx[t].locked # {}
           THEN /\ tx' = [tx EXCEPT ![t].status = "aborting"]
                /\ th' = [th EXCEPT ![t].pc = "c_abort"]
           ELSE /\ tx' = [tx EXCEPT ![t].status = "aborted"]
                /\ th' = [th EXCEPT ![t].pc = "idle"]
  /\ UNCHANGED <<mem, left, role, vals, last>>

\* RadixTree::install, line 334: the payload, one word per step
install_value(t) ==
  /\ th[t].pc = "c_install"
  /\ LET vv == First(WriteItems(t) \ tx[t].installed)
         it == tx[t].items[vv]
     IN /\ item_put_bit \in it.flags
        /\ th[t].w < value_words
        /\ \E v \in 0 .. MaxVal :
             /\ it.wbool \/ v = it.wdata
             /\ leafValue' = [leafValue EXCEPT ![vv][th[t].w + 1] = v]
        /\ th' = [th EXCEPT ![t].w = @ + 1]
  /\ UNCHANGED <<children, nodeVersion, leafVersion, written, tx, left, role, vals, last>>

\* install that sets the bits and does not add increment_value
install_version_not_incremented(ver, flags) ==
  IF item_put_bit \in flags
    THEN ClearBit(OrBit(ver, valid_bit), ver_insert_bit)
    ELSE IF item_remove_bit \in flags
      THEN ClearBit(ClearBit(ver, valid_bit), ver_insert_bit)
      ELSE ver

\* the version RadixTree::install computes, lines 329-338
install_version(ver, flags) ==
  LET new_ver == ver + increment_value IN
  IF item_put_bit \in flags
    THEN ClearBit(OrBit(new_ver, valid_bit), ver_insert_bit)
    ELSE IF item_remove_bit \in flags
      THEN ClearBit(ClearBit(new_ver, valid_bit), ver_insert_bit)
      ELSE new_ver

\* RadixTree::install, line 339
install(t) ==
  /\ th[t].pc = "c_install"
  /\ LET vv == First(WriteItems(t) \ tx[t].installed)
         it == tx[t].items[vv]
     IN /\ item_put_bit \in it.flags => th[t].w = value_words
        /\ leafVersion' = [leafVersion EXCEPT
              ![vv] = set_version(@, install_version(@, it.flags))]
        /\ written' = Record(vv, install_version(leafVersion[vv], it.flags), leafValue[vv])
        /\ tx' = [tx EXCEPT ![t].installed = @ \cup {vv}]
        /\ th' = [th EXCEPT ![t].w = 0,
                    ![t].pc = IF tx[t].installed \cup {vv} = WriteItems(t)
                                THEN "c_unlock" ELSE "c_install"]
  /\ UNCHANGED <<children, nodeVersion, leafValue, left, role, vals, last>>

\* the leaf left locked
leaf_kept_locked(ver) == ver

\* line 344
leaf_released(ver) == TidUnlock(ver)

\* RadixTree::unlock, lines 342-345
unlock(t) ==
  /\ th[t].pc = "c_unlock"
  /\ LET vv == First(tx[t].locked) IN
       /\ leafVersion' = [leafVersion EXCEPT ![vv] = leaf_released(@)]
       /\ IF tx[t].locked = {vv}
            THEN /\ tx' = Committed(t)
                 /\ th' = [th EXCEPT ![t].pc = "idle"]
            ELSE /\ tx' = [tx EXCEPT ![t].locked = @ \ {vv}]
                 /\ th' = th
  /\ UNCHANGED <<children, nodeVersion, leafValue, written, left, role, vals, last>>

\* a failed check: the locks taken are released and the transaction is aborted
abort_unlock(t) ==
  /\ th[t].pc = "c_abort"
  /\ LET vv == First(tx[t].locked) IN
       /\ leafVersion' = [leafVersion EXCEPT ![vv] = TidUnlock(@)]
       /\ tx' = [tx EXCEPT ![t].locked = @ \ {vv},
                           ![t].status = IF tx[t].locked = {vv} THEN "aborted" ELSE @]
       /\ th' = [th EXCEPT ![t].pc = IF tx[t].locked = {vv} THEN "idle" ELSE @]
  /\ UNCHANGED <<children, nodeVersion, leafValue, written, left, role, vals, last>>

\* ------------------------------------------- the non-transactional interface
InitSeq ==
  /\ InitMem
  /\ role = [t \in Threads |-> "raw"]
  /\ left = [t \in Threads |-> IF t = "t1" THEN MaxSeqOps ELSE 0]
  /\ vals = [t \in Threads |-> Vals]

NextSeq ==
  \E t \in Threads :
    \/ get_call(t) \/ get_value(t) \/ get_absent(t) \/ get_valid(t)
    \/ atomic_read_ver2(t) \/ atomic_read_value(t) \/ get_return(t)
    \/ put_call(t) \/ insert_nodes_check(t) \/ insert_nodes_lock(t)
    \/ insert_nodes_bump(t) \/ insert_nodes_publish(t) \/ insert_nodes_unlock(t)
    \/ put_lock(t) \/ put_version(t) \/ put_value(t) \/ put_unlock(t)
    \/ remove_call(t) \/ remove_absent(t) \/ remove_lock(t)
    \/ remove_version(t) \/ remove_unlock(t)

SpecSeq == InitSeq /\ [][NextSeq]_vars

\* ---------------------------------------------- two concurrent transactions
TxnStep(t) ==
  \/ tx_begin(t) \/ get_value(t)
  \/ trans_get_call(t) \/ trans_get_empty(t) \/ trans_get_own_write(t)
  \/ trans_get_version(t) \/ atomic_read_ver2(t) \/ atomic_read_value(t)
  \/ trans_get_return(t)
  \/ trans_put_call(t) \/ insert_nodes_check(t) \/ insert_nodes_lock(t)
  \/ insert_nodes_bump(t) \/ insert_nodes_publish(t) \/ insert_nodes_unlock(t)
  \/ trans_put_stage(t)
  \/ trans_remove_call(t) \/ trans_remove_empty(t) \/ trans_remove_stage(t)
  \/ commit_begin(t) \/ lock(t) \/ commit_check(t) \/ install_value(t) \/ install(t)
  \/ unlock(t) \/ abort_unlock(t)

InitTxn ==
  /\ InitMem
  /\ role = [t \in Threads |-> "txn"]
  /\ left = [t \in Threads |-> IF t = "t1" THEN MaxPairOps ELSE MaxPeerOps]
  /\ vals = [t \in Threads |-> {ThreadVal(t)}]

NextTxn == \E t \in Threads : TxnStep(t)

SpecTxn == InitTxn /\ [][NextTxn]_vars

\* --------------------------- one transaction beside the non-transactional calls
RawStep(t) ==
  \/ get_call(t) \/ get_absent(t) \/ get_valid(t) \/ get_return(t)
  \/ put_call(t) \/ put_lock(t) \/ put_version(t) \/ put_value(t) \/ put_unlock(t)
  \/ remove_call(t) \/ remove_absent(t) \/ remove_lock(t)
  \/ remove_version(t) \/ remove_unlock(t)

Init ==
  /\ InitMem
  /\ role = [t \in Threads |-> IF t = "t1" THEN "txn" ELSE "raw"]
  /\ left = [t \in Threads |-> IF t = "t1" THEN MaxTxOps ELSE MaxRawOps]
  /\ vals = [t \in Threads |-> {ThreadVal(t)}]

Next == \E t \in Threads : TxnStep(t) \/ RawStep(t)

Spec == Init /\ [][Next]_vars

\* ------------- a longer transaction, any values, beside one non-transactional call
InitOwn ==
  /\ InitMem
  /\ role = [t \in Threads |-> IF t = "t1" THEN "txn" ELSE "raw"]
  /\ left = [t \in Threads |-> IF t = "t1" THEN MaxOwnOps ELSE MaxOwnRawOps]
  /\ vals = [t \in Threads |-> IF t = "t1" THEN Vals ELSE {ThreadVal(t)}]

SpecOwn == InitOwn /\ [][Next]_vars

\* --- the calls that take locks: a transaction beside a transaction or beside
\* --- a thread of put / remove, fairly scheduled
LockStep(t) ==
  \/ tx_begin(t) \/ get_value(t)
  \/ trans_put_call(t) \/ insert_nodes_check(t) \/ insert_nodes_lock(t)
  \/ insert_nodes_bump(t) \/ insert_nodes_publish(t) \/ insert_nodes_unlock(t)
  \/ trans_put_stage(t)
  \/ trans_remove_call(t) \/ trans_remove_empty(t) \/ trans_remove_stage(t)
  \/ commit_begin(t) \/ lock(t) \/ commit_check(t) \/ install_value(t) \/ install(t)
  \/ unlock(t) \/ abort_unlock(t)
  \/ put_call(t) \/ put_lock(t) \/ put_version(t) \/ put_value(t) \/ put_unlock(t)
  \/ remove_call(t) \/ remove_absent(t) \/ remove_lock(t)
  \/ remove_version(t) \/ remove_unlock(t)

InitLock ==
  /\ InitMem
  /\ role \in {r \in [Threads -> {"txn", "raw"}] : r["t1"] = "txn"}
  /\ left = [t \in Threads |-> MaxLockOps]
  /\ vals = [t \in Threads |-> {ThreadVal(t)}]

NextLock == \E t \in Threads : LockStep(t)

\* every thread that can take a step is scheduled again
SpecLock == InitLock /\ [][NextLock]_vars /\ \A t \in Threads : WF_vars(LockStep(t))

\* ------------ no two threads at once: a call or a transaction runs from its
\* ------------ beginning to its end while the other thread is between calls
Quiet(t) == th[t].pc = "idle" /\ tx[t].status \in {"none", "committed", "aborted"}

Alone(t) == \A o \in Threads \ {t} : Quiet(o)

\* a call outside a transaction, or a transaction, begins when the other thread is
\* between calls; the other thread then begins nothing until it has ended
SoloStep(t) ==
  \/ Alone(t) /\ tx_begin(t)
  \/ Alone(t) /\ get_call(t)
  \/ Alone(t) /\ put_call(t)
  \/ Alone(t) /\ remove_call(t)
  \/ get_value(t)
  \/ trans_get_call(t) \/ trans_get_empty(t) \/ trans_get_own_write(t)
  \/ trans_get_version(t) \/ atomic_read_ver2(t) \/ atomic_read_value(t)
  \/ trans_get_return(t)
  \/ trans_put_call(t) \/ insert_nodes_check(t) \/ insert_nodes_lock(t)
  \/ insert_nodes_bump(t) \/ insert_nodes_publish(t) \/ insert_nodes_unlock(t)
  \/ trans_put_stage(t)
  \/ trans_remove_call(t) \/ trans_remove_empty(t) \/ trans_remove_stage(t)
  \/ commit_begin(t) \/ lock(t) \/ commit_check(t) \/ install_value(t) \/ install(t)
  \/ unlock(t) \/ abort_unlock(t)
  \/ get_absent(t) \/ get_valid(t) \/ get_return(t)
  \/ put_lock(t) \/ put_version(t) \/ put_value(t) \/ put_unlock(t)
  \/ remove_absent(t) \/ remove_lock(t) \/ remove_version(t) \/ remove_unlock(t)

NextSolo == \E t \in Threads : SoloStep(t)

SpecSolo == InitOwn /\ [][NextSolo]_vars

\* ======================================================== the claims
LeafOf(k) == transform(k)
Finished(t) == tx[t].status \in {"committed", "aborted"}
CommittedTxns == {t \in Threads : tx[t].status = "committed"}

\* What a committed transaction's installs leave in each key: 0 absent, a value,
\* or AnyVal when install wrote a payload that was never a V.
AnyVal == MaxVal + 1
Effects(t, map) ==
  [k \in Keys |->
     IF LeafOf(k) \in WriteItems(t)
       THEN LET it == tx[t].items[LeafOf(k)] IN
            IF item_put_bit \in it.flags THEN (IF it.wbool THEN AnyVal ELSE it.wdata) ELSE 0
       ELSE map[k]]

\* every result the transaction read from the tree is the one `map` gives
Explained(t, map) ==
  \A o \in tx[t].obs :
    /\ o[2] = (map[o[1]] # 0)
    /\ (o[2] /\ map[o[1]] # AnyVal) => o[3] = Payload(map[o[1]])

RECURSIVE SerialRun(_, _, _)
SerialRun(order, n, map) ==
  IF n > Len(order) THEN TRUE
  ELSE Explained(order[n], map) /\ SerialRun(order, n + 1, Effects(order[n], map))

Orders(S) == {s \in [1 .. Cardinality(S) -> S] : \A a, b \in DOMAIN s : s[a] = s[b] => a = b}

\* C1: once every transaction has ended, some serial order of the committed
\* transactions, run from the empty tree, gives every presence result and value
\* that they read.
C1_Serializable ==
  (\A t \in Threads : Finished(t)) =>
    \E order \in Orders(CommittedTxns) : SerialRun(order, 1, [k \in Keys |-> 0])

\* C2: a transaction whose trans_get(k) returned false, and that began its commit
\* after another transaction's trans_put(k, _) had committed, does not commit.
C2_GetPhantomAborts ==
  \A t \in Threads : tx[t].status = "committed" => "get" \notin tx[t].phantom

\* C3: a transaction that called trans_remove(k) while k was absent, and that began
\* its commit after another transaction's trans_put(k, _) had committed, does not
\* commit.
C3_RemovePhantomAborts ==
  \A t \in Threads : tx[t].status = "committed" => "remove" \notin tx[t].phantom

AtInstallStart(t) == th[t].pc = "c_install" /\ tx[t].installed = {} /\ th[t].w = 0

\* C5 as claimed: when a transaction starts installing, every read item it recorded
\* (leaf items and empty_bit node items) still has the recorded version, ignoring
\* the lock bit.
C5_ReadsValidAtInstall ==
  \A t \in Threads :
    AtInstallStart(t) => \A p \in ReadItems(t) : check(tx[t].items[p], p)

\* C5 amended: when a transaction starts installing, every read item on a leaf it
\* also writes, and so holds locked, still has the recorded version, ignoring the
\* lock bit.
C5_LockedReadsValidAtInstall ==
  \A t \in Threads :
    AtInstallStart(t) =>
      \A p \in ReadItems(t) \cap WriteItems(t) :
        same_version(leafVersion[p], tx[t].items[p].rdata)

C5_Witness ==
  \E t \in Threads :
    /\ AtInstallStart(t)
    /\ ReadItems(t) \cap WriteItems(t) # {}
    /\ \E o \in Threads \ {t} : tx[o].status = "committed" /\ WriteItems(o) # {}

\* C4: every payload that get or trans_get reads from a leaf and returns with
\* result true is one whole written value: not a mix of the words of two writes,
\* not the payload the leaf was built with.
C4_SnapshotAtomicity ==
  \A t \in Threads :
    (th[t].ret.leaf /\ th[t].ret.found) => \E v \in Vals : th[t].ret.value = Payload(v)

\* the item of the leaf that the last returned call named
RetItem(t) == StoItem(t, LeafOf(th[t].ret.key))
Last(q) == q[Len(q)]

\* C6: a trans_get(k) that returns while the transaction's latest staged operation
\* on k is trans_put(k, v) returns true with value v.
C6_ObservedOwnWrites ==
  \A t \in Threads :
    (th[t].ret.op = "trans_get" /\ RetItem(t).staged # << >> /\ Last(RetItem(t).staged) # 0)
      => (th[t].ret.found /\ th[t].ret.value = Payload(Last(RetItem(t).staged)))

\* trans_put(k, v1); trans_put(k, v2); trans_get(k) gave v2, the leaf still unwritten
C6_Witness ==
  \E t \in Threads :
    /\ th[t].ret.op = "trans_get"
    /\ Len(RetItem(t).staged) = 2
    /\ RetItem(t).staged[1] # 0 /\ RetItem(t).staged[2] # 0
    /\ RetItem(t).staged[1] # RetItem(t).staged[2]
    /\ th[t].ret.value = Payload(RetItem(t).staged[2])
    /\ ~HasBit(leafVersion[LeafOf(th[t].ret.key)], valid_bit)

\* C7: trans_get(k) returns true only if the transaction's latest staged operation
\* on k is a put, or it staged nothing on k and the result is a leaf snapshot with
\* the valid bit set; after its own trans_remove(k) it returns false.
C7_FoundAndPresent ==
  \A t \in Threads :
    (th[t].ret.op = "trans_get" /\ th[t].ret.found) =>
      IF RetItem(t).staged # << >>
        THEN Last(RetItem(t).staged) # 0
        ELSE th[t].ret.leaf /\ HasBit(RetItem(t).rdata, valid_bit)

\* C8: with one thread calling put, remove and get, get(k) returns true with v when
\* the last completed call on k was put(k, v), and false when k was never put or
\* the last call on k was remove(k).
C8_MapSemantics ==
  \A t \in Threads :
    th[t].ret.op = "get" =>
      /\ th[t].ret.found = (last[th[t].ret.key] # 0)
      /\ th[t].ret.found => th[t].ret.value = Payload(last[th[t].ret.key])

\* get(k) found k on a leaf whose version was written three times: put, remove, put
C8_Witness ==
  \E t \in Threads :
    /\ th[t].ret.op = "get" /\ th[t].ret.found
    /\ leafVersion[LeafOf(th[t].ret.key)] = 3 * increment_value + valid_bit
    /\ \E k \in Keys : k # th[t].ret.key /\ last[k] = 0

\* what get(k), run alone, returns: the payload, or NoBuf for false
Contents(k) ==
  IF /\ \A n \in 1 .. t_key_sz : children[Prefix(transform(k), n)] # NULL
     /\ HasBit(leafVersion[LeafOf(k)], valid_bit)
    THEN leafValue[LeafOf(k)]
    ELSE NoBuf

\* C9: the result of get(k) changes for no key in any step of a transaction other
\* than its installs, so a transaction that aborts leaves every result as it was;
\* and a slot, once filled, keeps its child, so the leaf an aborted trans_put left
\* behind is the one a later put uses.
C9_AbortLeavesContents ==
  [][/\ (\E k \in Keys : Contents(k)' # Contents(k)) =>
          \E t \in Threads : /\ <<th[t], tx[t]>>' # <<th[t], tx[t]>>
                              /\ (th[t].pc = "c_install" \/ role[t] = "raw")
      /\ \A p \in SlotPaths : children[p] # NULL => children'[p] = children[p]
     ]_vars

\* an aborted transaction left a leaf in (insert, valid) = (1, 0); get ran on the key
C9_Witness ==
  \E t, o \in Threads :
    /\ tx[t].status = "aborted"
    /\ \E p \in WriteItems(t) :
         /\ item_put_bit \in tx[t].items[p].flags
         /\ HasBit(leafVersion[p], ver_insert_bit)
         /\ th[o].ret.op = "get" /\ th[o].ret.key = KeyOf(p) /\ ~th[o].ret.found

InsertValid(w) == <<IF HasBit(w, ver_insert_bit) THEN 1 ELSE 0, IF HasBit(w, valid_bit) THEN 1 ELSE 0>>

LeafUpdated(p) ==
  /\ children[p] # NULL
  /\ ClearBit(leafVersion'[p], lock_bit) # ClearBit(leafVersion[p], lock_bit)

NoInsertAndValid ==
  \A p \in LeafPaths : children[p] # NULL => InsertValid(leafVersion[p]) # <<1, 1>>

\* C10 as claimed: no leaf has the insert bit and the valid bit both set, and every
\* update of a leaf's version word takes (insert, valid) along one of (1,0)->(0,1),
\* (1,0)->(0,0), (0,1)->(0,1), (0,1)->(0,0), (0,0)->(0,1).
C10_LeafTransitions ==
  /\ []NoInsertAndValid
  /\ [][\A p \in LeafPaths : LeafUpdated(p) =>
          <<InsertValid(leafVersion[p]), InsertValid(leafVersion'[p])>> \in
            {<< <<1, 0>>, <<0, 1>> >>, << <<1, 0>>, <<0, 0>> >>, << <<0, 1>>, <<0, 1>> >>,
             << <<0, 1>>, <<0, 0>> >>, << <<0, 0>>, <<0, 1>> >>}]_vars

\* C10 amended: as claimed, with the update (0,0)->(0,0) of a remove of an absent
\* leaf added to the transitions.
C10_LeafTransitionsWithRemoveOfAbsent ==
  /\ []NoInsertAndValid
  /\ [][\A p \in LeafPaths : LeafUpdated(p) =>
          <<InsertValid(leafVersion[p]), InsertValid(leafVersion'[p])>> \in
            {<< <<1, 0>>, <<0, 1>> >>, << <<1, 0>>, <<0, 0>> >>, << <<0, 1>>, <<0, 1>> >>,
             << <<0, 1>>, <<0, 0>> >>, << <<0, 0>>, <<0, 1>> >>, << <<0, 0>>, <<0, 0>> >>}]_vars

\* a leaf at (0,0) whose version was written twice, and a leaf a put made valid
C10_Witness ==
  /\ \E p \in LeafPaths :
       /\ children[p] # NULL
       /\ InsertValid(leafVersion[p]) = <<0, 0>>
       /\ ClearBit(leafVersion[p], lock_bit) >= 2 * increment_value
  /\ \E p \in LeafPaths : children[p] # NULL /\ InsertValid(leafVersion[p]) = <<0, 1>>

Unlocked(w) == ClearBit(w, lock_bit)
Parent(p) == Prefix(p, Len(p) - 1)

\* C11: across every step, the version word of every leaf, ignoring the lock bit,
\* does not decrease; put, remove and install each make it greater, also when they
\* clear the insert bit or the valid bit.
C11_LeafVersionMonotone ==
  [][\A p \in LeafPaths :
       /\ Unlocked(leafVersion'[p]) >= Unlocked(leafVersion[p])
       /\ LeafUpdated(p) => Unlocked(leafVersion'[p]) > Unlocked(leafVersion[p])]_vars

\* a put made the leaf valid, then the install of a trans_remove cleared the valid bit
C11_Witness ==
  \E t \in Threads : \E p \in tx[t].installed :
    /\ item_remove_bit \in tx[t].items[p].flags
    /\ item_put_bit \notin tx[t].items[p].flags
    /\ Unlocked(leafVersion[p]) = 2 * increment_value

\* C12: a child slot changes at most once, from empty to non-empty: a slot that
\* holds a child holds the same child after every step.
C12_SlotsFilledOnce ==
  [][\A p \in SlotPaths : children[p] # NULL => children'[p] = children[p]]_vars

\* two insert_nodes calls built a child for the same slot; this one came second
C12_Witness ==
  \E t \in Threads :
    /\ th[t].pc = "in_unlock"
    /\ children[Slot(t)] \notin {NULL, t}

\* C13: the (version, payload) pair with which atomic_read returns is coherent: the
\* payload is the one written (or left in place) by the update that gave the leaf
\* the returned version, the initial payload for the version the leaf was built with.
C13_CoherentSnapshot ==
  [][\A t \in Threads :
       (th[t].pc = "ar_ver" /\ th'[t].pc \in {"idle", "tx"}) =>
         <<Unlocked(th[t].ver2), th[t].buf>> \in written[th[t].cur]]_vars

\* C14: a node's version witnesses insertions: a slot is filled only under the
\* node's lock, and a version of the node recorded before a slot of it is filled
\* differs, ignoring the lock bit, from the node's version once the slot is filled;
\* so a validator that finds the recorded version unchanged knows that no slot was
\* filled since.
C14_VersionWitnessesInsertions ==
  [][\A p \in SlotPaths :
       (children[p] = NULL /\ children'[p] # NULL) =>
         /\ is_locked(nodeVersion[Parent(p)])
         /\ \A t \in Threads :
              (Parent(p) \in ReadItems(t) /\ item_empty_bit \in tx[t].items[Parent(p)].flags)
                => ~same_version(nodeVersion'[Parent(p)], tx[t].items[Parent(p)].rdata)]_vars

\* C15: of the insert_nodes calls racing on an empty slot one publishes its child,
\* under the node's lock and into the empty slot; a call that finds the slot filled
\* after locking has deleted its child before it unlocks; every call returns the
\* leaf the slots lead to, which stays the same object from then on.
C15_OneWinner ==
  /\ [](\A t \in Threads :
          /\ th[t].pc = "in_unlock" => (th[t].new_node = NULL /\ children[Slot(t)] # NULL)
          /\ th[t].pc = "in_done" =>
               /\ th[t].cur = LeafOf(th[t].key)
               /\ \A n \in 1 .. t_key_sz : children[Prefix(th[t].cur, n)] # NULL)
  /\ [][\A p \in SlotPaths :
          children'[p] # children[p] =>
            /\ children[p] = NULL
            /\ children'[p] \in Threads
            /\ th[children'[p]].pc = "in_publish" /\ th[children'[p]].new_node # NULL
            /\ is_locked(nodeVersion[Parent(p)])]_vars

\* both threads returned the same leaf from insert_nodes; one of them lost a race
\* on the way
C15_Witness ==
  /\ \A t \in Threads : th[t].pc = "in_done"
  /\ \E t, o \in Threads :
       /\ t # o /\ th[t].cur = th[o].cur
       /\ children[th[t].cur] = t
       /\ children[Parent(th[t].cur)] = o

\* C16: a trans_get that returns a snapshot of a leaf on which the transaction had
\* already recorded a read returns a snapshot of the recorded version, ignoring the
\* lock bit.
C16_RepeatableRead ==
  [][\A t \in Threads :
       (/\ th[t].pc = "ar_ver" /\ th[t].op = "trans_get" /\ th'[t].pc = "tx"
        /\ StoItem(t, th[t].cur).has_read)
         => same_version(th[t].ver2, StoItem(t, th[t].cur).rdata)]_vars

\* the threads that hold the lock of node n, and of leaf p
NodeHolders(n) ==
  {t \in Threads : th[t].pc \in {"in_bump", "in_publish", "in_unlock"} /\ th[t].cur = n}
LeafHolders(p) ==
  {t \in Threads :
     \/ th[t].pc \in {"put_ver", "put_val", "put_unlock", "remove_ver", "remove_unlock"}
          /\ th[t].cur = p
     \/ p \in tx[t].locked}
Quiescent ==
  \A t \in Threads : th[t].pc \in {"idle", "tx"} /\ tx[t].status \notin {"committing", "aborting"}

\* C17: a node's lock bit is set exactly while one thread is between the lock and
\* the unlock of insert_nodes on that node, so a thread descending or returning
\* from insert_nodes holds no node lock; a leaf's lock bit is set exactly while one
\* thread holds it; with no operation in progress no lock bit is set.
C17_LockDiscipline ==
  /\ \A n \in NodePaths :
       Cardinality(NodeHolders(n)) = IF is_locked(nodeVersion[n]) THEN 1 ELSE 0
  /\ \A p \in LeafPaths :
       Cardinality(LeafHolders(p)) = IF is_locked(leafVersion[p]) THEN 1 ELSE 0
  /\ Quiescent =>
       /\ \A n \in NodePaths : ~is_locked(nodeVersion[n])
       /\ \A p \in LeafPaths : ~is_locked(leafVersion[p])

\* insert_nodes released the root and holds the next node's lock, while the other
\* thread holds a leaf lock
C17_Witness ==
  \E t, o \in Threads :
    /\ t # o
    /\ th[t].pc = "in_publish" /\ th[t].cur # << >>
    /\ ~is_locked(nodeVersion[<< >>])
    /\ \E p \in LeafPaths : LeafHolders(p) = {o}

\* the thread is at a lock acquisition and the lock is held
WaitsForLock(t) ==
  \/ th[t].pc = "in_lock" /\ is_locked(nodeVersion[th[t].cur])
  \/ th[t].pc = "in_done" /\ th[t].op = "put" /\ is_locked(leafVersion[th[t].cur])
  \/ th[t].pc = "gv_leaf" /\ th[t].op = "remove" /\ is_locked(leafVersion[th[t].cur])
  \/ th[t].pc = "c_lock" /\ is_locked(leafVersion[First(WriteItems(t) \ tx[t].locked)])

InCall(t) == th[t].pc \notin {"idle", "tx"}

\* C18: no state has a thread waiting for a lock while no thread can take a step,
\* and under fair scheduling the calls and commits that have begun, waiting for
\* locks or not, all come to their end: from some point on no thread is inside one.
C18_NoDeadlock ==
  /\ []((\E t \in Threads : WaitsForLock(t)) => \E o \in Threads : ENABLED LockStep(o))
  /\ <>[](\A t \in Threads : ~InCall(t))

\* both transactions wrote both leaves; one holds the first leaf and the other
\* waits for it
C18_Witness ==
  \E t, o \in Threads :
    /\ t # o
    /\ Cardinality(WriteItems(t)) = 2 /\ Cardinality(WriteItems(o)) = 2
    /\ tx[t].locked # {}
    /\ th[o].pc = "c_lock" /\ WaitsForLock(o)

\* C19: a transaction that runs with no concurrent operation of another thread
\* does not abort: not in trans_get, not at check.
C19_SoloCommits ==
  \A t \in Threads : tx[t].status \notin {"aborting", "aborted"}

\* what the writes a transaction staged on leaf p leave in the key: the payload of
\* the put staged last, NoBuf after a remove staged last
StagedResult(t, p) ==
  IF Last(tx[t].items[p].staged) = 0 THEN NoBuf ELSE Payload(Last(tx[t].items[p].staged))

\* C20: when a transaction has committed, with no other thread running, get(k)
\* returns for every key it wrote what its last staged operation on k decides:
\* false after trans_remove(k), (true, v) after trans_put(k, v), whatever it staged
\* on k before.
C20_LastStagedDecides ==
  [][\A t \in Threads :
       (tx[t].status # "committed" /\ tx'[t].status = "committed") =>
         \A p \in WriteItems(t) : Contents(KeyOf(p))' = StagedResult(t, p)]_vars

====
